---- MODULE Spec2Model ----
(***************************************************************************)
(* Snake on an 8x8 LED matrix (SnakeProto.ino): the game task's state      *)
(* machine, the occupancy bitmap, the circular snake buffer, the apple     *)
(* placer, the direction queue fed by four button tasks and the movement   *)
(* notification given by the timer task.                                   *)
(*                                                                         *)
(* One GameLogicTask step is one iteration of the task's while(1) loop     *)
(* (lines 204-305): direction event, apple check and tick in that order.   *)
(* All game variables are uint8_t; arithmetic is kept modulo 256.          *)
(***************************************************************************)
EXTENDS Integers, Sequences, FiniteSets, TLC

\* ------------------------------------------------------------------
\* Program constants (macros of SnakeProto.ino)
\* ------------------------------------------------------------------
SCREEN_WIDTH == 8
SCREEN_HEIGHT == 8
SNAKE_LEN == 64
MAIN_MENU == 1
PLAYING == 2
GAME_OVER_TRANS == 3
GAME_OVER_MENU == 4
ENTERING_HISCORE == 5
VIEWING_HISCORE == 6
SETUP_GAME == 7
UP == 1
DOWN == 2
RIGHT == 10
LEFT == 11
DIRECTION_QUEUE_SIZE == 1
\* apple = 0xFF marks "no apple on the board" (line 248)
NO_APPLE == 255

\* ------------------------------------------------------------------
\* Bounds of the model
\* ------------------------------------------------------------------
\* number of movement ticks the timer task gives in a run
MaxTicks == 5
\* cap on the pending notification count of the game task
MaxPending == 2
\* largest value of rand() % (64 - score) explored
MaxDraw == 9
\* number of movement ticks in the runs of SpecShort and SpecLast
MaxShortTicks == 2
\* number of movement ticks in the runs of SpecDisplay
MaxFrameTicks == 1
\* number of directions the button tasks send in the runs of SpecDisplay
MaxFrameSends == 1

\* The values of a uint8_t: what a local declared without an initialiser
\* (lines 195-203) holds when the task starts, and what a read outside
\* snake_buf finds
Byte == 0 .. 255

Directions == {UP, DOWN, RIGHT, LEFT}

\* ------------------------------------------------------------------
\* uint8_t / int helpers
\* ------------------------------------------------------------------
U8(n) == n % 256

Pow2(n) == 2 ^ n

\* bit n of v
Bit(v, n) == (v \div Pow2(n)) % 2

\* C's & on non-negative ints
RECURSIVE BitAnd(_, _)
BitAnd(a, b) ==
  IF a = 0 \/ b = 0 THEN 0
  ELSE (a % 2) * (b % 2) + 2 * BitAnd(a \div 2, b \div 2)

\* C's | on non-negative ints
BitOr(a, b) == a + b - BitAnd(a, b)

\* !x of C
LNot(v) == IF v = 0 THEN 1 ELSE 0

UPPER_BITS(x) == x \div 16
LOWER_BITS(x) == BitAnd(x, 15)
TO_COORDINATES(x, y) == BitOr(y, x * 16)
SNAKE_NEXT(x) == (x + 1) % SNAKE_LEN

\* ------------------------------------------------------------------
\* State
\* ------------------------------------------------------------------
VARIABLES
  state,            \* uint8_t state            (line 193)
  snake_buf,        \* uint8_t snake_buf[64]    (line 195)
  head_idx,         \* uint8_t head_idx         (line 196, uninitialised)
  tail_idx,         \* uint8_t tail_idx = 0     (line 196)
  current_head,     \* provisional head         (line 197)
  apple,            \* apple coordinates        (line 198)
  current_score,    \* line 199
  got_apple,        \* line 200
  direction,        \* line 202
  body_direction,   \* line 202
  new_direction,    \* line 203
  game_bitmap,      \* uint8_t game_bitmap[8]   (line 69)
  direction_queue,  \* FreeRTOS queue of capacity DIRECTION_QUEUE_SIZE
  notify,           \* notification count of the game task
  moves,            \* history: ticks committed so far
  any_input,        \* history: a direction has been received
  pc,               \* "task": the tasks run; "trap": the program has
                    \* stopped; other values: a single call
  taken,            \* history: what the last ulTaskNotifyTake returned
  frame,            \* rows DisplayGameTask has sent in its current pass
  held,             \* history: the values game_bitmap has held during
                    \* that pass, each with whether GameLogicTask was
                    \* between two iterations
  stores,           \* bitmap values the running iteration of
                    \* GameLogicTask has still to store
  position,         \* where GameLogicTask stands once these are
                    \* stored: "loop", at the end of the iteration;
                    \* "event", before the apple check (line 247);
                    \* "apple", in place_apple at the division by zero
  sent              \* history: directions the button tasks have sent

game_vars == <<state, snake_buf, head_idx, tail_idx, current_head,
               apple, current_score, got_apple, direction, body_direction,
               new_direction, game_bitmap>>

\* taken is kept by SpecPoll, frame, held, stores, position and sent by
\* SpecDisplay; the other specifications leave them alone
display_vars == <<frame, held, stores, position, sent>>
obs_vars == <<taken, frame, held, stores, position, sent>>

vars == <<state, snake_buf, head_idx, tail_idx, current_head, apple,
          current_score, got_apple, direction, body_direction,
          new_direction, game_bitmap, direction_queue, notify, moves,
          any_input, pc, taken, frame, held, stores, position,
          sent>>

ObsInit ==
  /\ taken = 0
  /\ frame = <<>>
  /\ held = {[bitmap |-> game_bitmap, boundary |-> TRUE]}
  /\ stores = <<>>
  /\ position = "loop"
  /\ sent = 0

\* The locals of GameLogicTask, the byte it reads outside snake_buf and
\* the global bitmap as one record
Game ==
  [state |-> state, snake_buf |-> snake_buf,
   head_idx |-> head_idx,
   tail_idx |-> tail_idx, current_head |-> current_head, apple |-> apple,
   current_score |-> current_score, got_apple |-> got_apple,
   direction |-> direction, body_direction |-> body_direction,
   new_direction |-> new_direction, game_bitmap |-> game_bitmap]

StoreLocals(g) ==
  /\ state' = g.state
  /\ snake_buf' = g.snake_buf
  /\ head_idx' = g.head_idx
  /\ tail_idx' = g.tail_idx
  /\ current_head' = g.current_head
  /\ apple' = g.apple
  /\ current_score' = g.current_score
  /\ got_apple' = g.got_apple
  /\ direction' = g.direction
  /\ body_direction' = g.body_direction
  /\ new_direction' = g.new_direction

Store(g) == StoreLocals(g) /\ game_bitmap' = g.game_bitmap

\* ------------------------------------------------------------------
\* Bitmap helpers (lines 100-127)
\* ------------------------------------------------------------------
\* return !!game_bitmap[LOWER_BITS(c)] & (1 << UPPER_BITS(c));
\* ! binds tighter than &: the row is reduced to 0/1 first and then
\* and-ed with the column mask.
check_bitmap(bm, coordinates) ==
  U8(BitAnd(LNot(LNot(bm[LOWER_BITS(coordinates)])),
            Pow2(UPPER_BITS(coordinates))))

\* game_bitmap[LOWER_BITS(c)] |= (1 << UPPER_BITS(c));
\* A row index above 7 lies outside game_bitmap: the store goes to other
\* memory and leaves the eight rows as they are.
set_bitmap_one(bm, coordinates) ==
  LET y == LOWER_BITS(coordinates)
      x == UPPER_BITS(coordinates)
  IN IF y \in DOMAIN bm
     THEN [bm EXCEPT ![y] = U8(BitOr(bm[y], Pow2(x)))]
     ELSE bm

\* game_bitmap[LOWER_BITS(c)] &= ~(1 << UPPER_BITS(c));
set_bitmap_zero(bm, coordinates) ==
  LET y == LOWER_BITS(coordinates)
      x == UPPER_BITS(coordinates)
  IN IF y \in DOMAIN bm
     THEN [bm EXCEPT ![y] = U8(bm[y] - BitAnd(bm[y], Pow2(x)))]
     ELSE bm

\* ------------------------------------------------------------------
\* place_apple (lines 136-157)
\* ------------------------------------------------------------------
\* The two nested loops, y = 0..8 outer and x = 0..8 inner, as one scan
\* over k = 9*y + x.  Returns the new value of *apple_coordinates, which
\* is the old one when the loops run out.  For r <= 63 the scan ends in a
\* row y <= 7 (columns 1..8 of every row count), so row 8 is never read.
RECURSIVE apple_scan(_, _, _, _)
apple_scan(bm, old_apple, r, k) ==
  IF k > (SCREEN_HEIGHT + 1) * (SCREEN_WIDTH + 1) - 1 THEN old_apple
  ELSE LET y == k \div (SCREEN_WIDTH + 1)
           x == k % (SCREEN_WIDTH + 1)
           c == TO_COORDINATES(x, y)
           r1 == IF r # 0 /\ check_bitmap(bm, c) = 0 THEN r - 1 ELSE r
       IN IF r1 = 0 THEN c ELSE apple_scan(bm, old_apple, r1, k + 1)

\* r is the value of rand() % ((64 - 1 - current_score) + 1)
place_apple(bm, old_apple, r) == apple_scan(bm, old_apple, r, 0)

\* the values rand() % (64 - current_score) can take
rand_draws(score) == 0 .. (SCREEN_HEIGHT * SCREEN_WIDTH - 1 - score)

\* ------------------------------------------------------------------
\* place_new_head (lines 170-186)
\* ------------------------------------------------------------------
B(p) == IF p THEN 1 ELSE 0

\* x > 8 -> 7; x == 8 -> "x == 0;" is a comparison, x stays 8
wrap_x(x) == IF x > SCREEN_WIDTH THEN SCREEN_WIDTH - 1 ELSE x

\* y > 8 -> 7; y == 8 -> 0
wrap_y(y) ==
  IF y > SCREEN_HEIGHT THEN SCREEN_HEIGHT - 1
  ELSE IF y = SCREEN_HEIGHT THEN 0 ELSE y

place_new_head(old_head, dir) ==
  LET x == U8(UPPER_BITS(old_head) + B(dir = RIGHT) - B(dir = LEFT))
      y == U8(LOWER_BITS(old_head) + B(dir = UP) - B(dir = DOWN))
  IN TO_COORDINATES(wrap_x(x), wrap_y(y))

\* ------------------------------------------------------------------
\* GameLogicTask, one block of the loop body per operator
\* ------------------------------------------------------------------
\* snake_buf[head_idx] as lines 223 and 243 read it: an entry of the
\* array, or with head_idx above 63 the byte m the memory outside the
\* array holds at that read
snake_at_head(buf, h, m) == IF h < SNAKE_LEN THEN buf[h] ELSE m

\* The iteration that finds the game record g and the queue contents q
\* reads snake_buf[head_idx] outside the array: in the SETUP_GAME branch
\* (line 223) or in a direction event (line 243)
reads_outside(g, q) ==
  /\ g.head_idx >= SNAKE_LEN
  /\ g.state = SETUP_GAME \/ (g.state = PLAYING /\ q # <<>>)

\* The bytes that read can find.  The memory there is not the array's: it
\* can be another local of the task (state, which line 228 writes) or
\* anything else, and it can differ from one read to the next.  Without
\* such a read no byte is found, and 0 stands for it.
stray(g, q) == IF reads_outside(g, q) THEN Byte ELSE {0}

\* for the iteration that starts in the current state
found == stray(Game, direction_queue)

\* SETUP_GAME branch (lines 214-228), m the byte its read outside the
\* array finds.  head_idx is read, never written.
setup_game(g, m) ==
  LET bm0 == [i \in 0 .. SCREEN_WIDTH - 1 |-> 0]
      buf == [g.snake_buf EXCEPT ![0] = TO_COORDINATES(4, 1)]
      bm1 == set_bitmap_one(bm0, buf[0])
      head == place_new_head(snake_at_head(buf, g.head_idx, m), UP)
      bm2 == set_bitmap_one(bm1, head)
      ap == TO_COORDINATES(4, 7)
      bm3 == set_bitmap_one(bm2, ap)
  IN [g EXCEPT !.game_bitmap = bm3, !.snake_buf = buf, !.direction = UP,
               !.body_direction = UP, !.current_head = head, !.apple = ap,
               !.current_score = 2, !.state = PLAYING]

\* valid_combination with the LEFT + RIGHT comparison left out
valid_combination_updown_only(body_dir, new_dir) ==
  body_dir + new_dir # UP + DOWN

\* the test of lines 234-235
valid_combination(body_dir, new_dir) ==
  /\ body_dir + new_dir # UP + DOWN
  /\ body_dir + new_dir # LEFT + RIGHT

\* Direction event (lines 232-245), d the value xQueueReceive delivered
\* and m the byte its read outside the array finds
direction_event(g, d, m) ==
  LET dir == IF valid_combination(g.body_direction, d) THEN d ELSE g.direction
      bm1 == set_bitmap_zero(g.game_bitmap, g.current_head)
      head == place_new_head(snake_at_head(g.snake_buf, g.head_idx, m), dir)
      bm2 == set_bitmap_one(bm1, head)
  IN [g EXCEPT !.new_direction = d, !.direction = dir,
               !.current_head = head, !.game_bitmap = bm2]

\* apple_check with the end of the game tested as current_score > 64
apple_check_past_full(g) ==
  IF g.current_head = g.apple
  THEN LET score == U8(g.current_score + 1)
       IN [g EXCEPT !.apple = NO_APPLE, !.got_apple = TRUE,
                    !.current_score = score,
                    !.state = IF score > 64 THEN GAME_OVER_TRANS ELSE @]
  ELSE g

\* Apple check (lines 247-261); the inner test is the literal true
apple_check(g) ==
  IF g.current_head = g.apple
  THEN LET score == U8(g.current_score + 1)
       IN [g EXCEPT !.apple = NO_APPLE, !.got_apple = TRUE,
                    !.current_score = score,
                    !.state = IF score >= 64 THEN GAME_OVER_TRANS ELSE @]
  ELSE g

\* Tick, first half (lines 265-270): commit the provisional head and draw
\* the next one
tick_advance(g) ==
  LET hi == SNAKE_NEXT(g.head_idx)
      buf == [g.snake_buf EXCEPT ![hi] = g.current_head]
      head == place_new_head(buf[hi], g.direction)
  IN [g EXCEPT !.head_idx = hi, !.snake_buf = buf,
               !.body_direction = g.direction, !.current_head = head,
               !.game_bitmap = set_bitmap_one(g.game_bitmap, head)]

\* Tick (lines 262-287), r the random draw place_apple makes
tick_commit(g, r) ==
  LET g1 == tick_advance(g)
  IN IF ~g.got_apple
     THEN [g1 EXCEPT !.game_bitmap =
                        set_bitmap_zero(@, g1.snake_buf[g.tail_idx]),
                     !.tail_idx = SNAKE_NEXT(g.tail_idx)]
     ELSE LET ap == place_apple(g1.game_bitmap, g.apple, r)
          IN [g1 EXCEPT !.got_apple = FALSE, !.apple = ap,
                        !.game_bitmap = set_bitmap_one(@, ap)]

\* GAME_OVER_TRANS branch (lines 288-293)
game_over_trans(g) == [g EXCEPT !.state = GAME_OVER_MENU]

\* The game record after the direction event and the apple check of the
\* PLAYING branch, q the queue contents at the poll
after_event(g, q, m) ==
  IF q # <<>> THEN direction_event(g, Head(q), m) ELSE g
before_tick(g, q, m) == apple_check(after_event(g, q, m))

\* The PLAYING branch (lines 229-287): queue contents q, pending
\* notification count n, random draw r
playing(g, q, n, r, m) ==
  IF n > 0 THEN tick_commit(before_tick(g, q, m), r)
  ELSE before_tick(g, q, m)

\* place_apple is called only on a tick with got_apple set (lines 281-283)
place_apple_invoked(g, q, n, m) ==
  n > 0 /\ before_tick(g, q, m).got_apple

\* rand() % ((64 - 1 - current_score) + 1) has a zero modulus when the
\* score is 64
modulus_zero(g, q, n, m) ==
  /\ place_apple_invoked(g, q, n, m)
  /\ before_tick(g, q, m).current_score >= SCREEN_HEIGHT * SCREEN_WIDTH

\* The draws a PLAYING iteration can make.  With a zero modulus the
\* remainder is undefined: any value.
draws(g, q, n, m) ==
  IF modulus_zero(g, q, n, m) THEN 0 .. MaxDraw
  ELSE IF place_apple_invoked(g, q, n, m)
  THEN {r \in rand_draws(before_tick(g, q, m).current_score) : r <= MaxDraw}
  ELSE {0}

\* The ways a PLAYING iteration can end: the branch runs to its end with
\* one of the draws, or the division by zero traps inside place_apple
\* (line 138), after lines 265-281 of the tick, and the program stops
playing_outcomes(g, q, n, m) ==
  {[game |-> playing(g, q, n, r, m), pc |-> "task"] :
     r \in draws(g, q, n, m)}
  \cup (IF modulus_zero(g, q, n, m)
        THEN {[game |-> [tick_advance(before_tick(g, q, m))
                           EXCEPT !.got_apple = FALSE],
               pc |-> "trap"]}
        ELSE {})

\* ------------------------------------------------------------------
\* Tasks
\* ------------------------------------------------------------------
\* The ways the branch of one iteration of GameLogicTask's loop (lines
\* 204-305) can end, m the byte its read outside the array finds.  The
\* menu and hi-score branches are empty.
branch_outcomes(m) ==
  IF state = SETUP_GAME
  THEN {[game |-> setup_game(Game, m), pc |-> "task"]}
  ELSE IF state = PLAYING
  THEN playing_outcomes(Game, direction_queue, notify, m)
  ELSE IF state = GAME_OVER_TRANS
  THEN {[game |-> game_over_trans(Game), pc |-> "task"]}
  ELSE {[game |-> Game, pc |-> "task"]}

\* The ways one iteration can end, whatever byte the read finds
iteration_outcomes == UNION {branch_outcomes(m) : m \in found}

\* ulTaskNotifyTake with pdFALSE: the count is decremented
notify_take_decrement(n) == IF n > 0 THEN n - 1 ELSE 0

\* The notification count after ulTaskNotifyTake(pdTRUE, 0) (line 262):
\* cleared
notify_take(n) == 0

\* The two polls of the PLAYING branch: xQueueReceive (line 232) and
\* ulTaskNotifyTake (line 262); no other branch polls
Polls ==
  IF state = PLAYING
  THEN /\ direction_queue' =
            IF direction_queue # <<>> THEN Tail(direction_queue) ELSE <<>>
       /\ notify' = notify_take(notify)
       /\ moves' = IF notify > 0 THEN moves + 1 ELSE moves
       /\ any_input' = (any_input \/ direction_queue # <<>>)
  ELSE UNCHANGED <<direction_queue, notify, moves, any_input>>

\* One iteration of GameLogicTask's loop
GameLogicIteration ==
  /\ pc = "task"
  /\ \E o \in iteration_outcomes : Store(o.game) /\ pc' = o.pc
  /\ Polls

GameLogicTask == GameLogicIteration /\ UNCHANGED obs_vars

\* xQueueSend(direction_queue, &direction, portMAX_DELAY): the sender
\* waits while the queue is full
QueueSendStep(d) ==
  /\ pc = "task"
  /\ Len(direction_queue) < DIRECTION_QUEUE_SIZE
  /\ direction_queue' = Append(direction_queue, d)
  /\ UNCHANGED <<game_vars, notify, moves, any_input, pc>>

QueueSend(d) == QueueSendStep(d) /\ UNCHANGED obs_vars

\* lines 335-381
SnakeButtonPressUp == QueueSend(UP)
SnakeButtonPressLeft == QueueSend(LEFT)
SnakeButtonPressRight == QueueSend(RIGHT)
SnakeButtonPressDown == QueueSend(DOWN)

\* xTaskNotifyGive(game) once a second (lines 328-333)
SnakeMoveNoti ==
  /\ pc = "task"
  /\ moves + notify < MaxTicks
  /\ notify < MaxPending
  /\ notify' = notify + 1
  /\ UNCHANGED <<game_vars, direction_queue, moves, any_input, pc, obs_vars>>

\* State when the tasks start: state = SETUP_GAME, tail_idx = 0 and
\* got_apple = false are initialised (lines 193, 196, 200); head_idx,
\* snake_buf and the other locals have no initialiser and hold whatever
\* bytes the stack or a register held.  game_bitmap is a zeroed global.
Init ==
  /\ state = SETUP_GAME
  /\ head_idx \in Byte
  /\ snake_buf \in [0 .. SNAKE_LEN - 1 -> Byte]
  /\ tail_idx = 0
  /\ got_apple = FALSE
  /\ current_head \in Byte
  /\ apple \in Byte
  /\ current_score \in Byte
  /\ direction \in Byte
  /\ body_direction \in Byte
  /\ new_direction \in Byte
  /\ game_bitmap = [i \in 0 .. SCREEN_WIDTH - 1 |-> 0]
  /\ direction_queue = <<>>
  /\ notify = 0
  /\ moves = 0
  /\ any_input = FALSE
  /\ pc = "task"
  /\ ObsInit

Next ==
  \/ GameLogicTask
  \/ SnakeButtonPressUp
  \/ SnakeButtonPressLeft
  \/ SnakeButtonPressRight
  \/ SnakeButtonPressDown
  \/ SnakeMoveNoti

Spec == Init /\ [][Next]_vars

\* The start in which head_idx and the other locals without initialiser
\* hold the byte f and every entry of snake_buf the byte b
Started(f, b) ==
  /\ head_idx = f
  /\ snake_buf = [i \in 0 .. SNAKE_LEN - 1 |-> b]
  /\ current_head = f
  /\ apple = f
  /\ current_score = f
  /\ direction = f
  /\ body_direction = f
  /\ new_direction = f
  /\ Init

\* The runs in which head_idx happens to hold 0 when the task starts, and
\* the other bytes 0
InitZero == Started(0, 0)

\* The starts followed through movement ticks, as <<f, b>> of Started:
\* the start of InitZero, and the bytes 2 and 63 throughout
StartRuns == {<<0, 0>>, <<2, 2>>, <<63, 63>>}

InitRuns == \E s \in StartRuns : Started(s[1], s[2])

\* Every start of head_idx, f; inside the array with every byte b the
\* Setup branch can read at snake_buf[head_idx], all entries holding b
InitStart ==
  \E f, b \in Byte : Started(f, IF f < SNAKE_LEN THEN b ELSE f)

SpecZero == InitZero /\ [][Next]_vars

\* ------------------------------------------------------------------
\* The tasks, with what each ulTaskNotifyTake returned kept
\* ------------------------------------------------------------------
\* ulTaskNotifyTake returns the count it found (line 262)
PolledGameLogicTask ==
  /\ GameLogicIteration
  /\ taken' = IF state = PLAYING THEN notify ELSE taken
  /\ UNCHANGED display_vars

NextPoll ==
  \/ PolledGameLogicTask
  \/ SnakeButtonPressUp
  \/ SnakeButtonPressLeft
  \/ SnakeButtonPressRight
  \/ SnakeButtonPressDown
  \/ SnakeMoveNoti

SpecPoll == InitZero /\ [][NextPoll]_vars

\* ------------------------------------------------------------------
\* GameLogicTask store by store, with DisplayGameTask (lines 313-321)
\* ------------------------------------------------------------------
\* w without the values equal to the one before them, prev before the
\* first: a store of the value already there changes nothing
RECURSIVE Changes(_, _)
Changes(prev, w) ==
  IF w = <<>> THEN <<>>
  ELSE IF Head(w) = prev THEN Changes(prev, Tail(w))
  ELSE <<Head(w)>> \o Changes(Head(w), Tail(w))

\* The values game_bitmap takes during the SETUP_GAME branch: the row
\* clears of lines 216-218, then lines 220, 224, 226
setup_stores(g, m) ==
  LET clear(k) == [i \in 0 .. SCREEN_WIDTH - 1 |->
                    IF i < k THEN 0 ELSE g.game_bitmap[i]]
      bm1 == set_bitmap_one(clear(SCREEN_WIDTH), TO_COORDINATES(4, 1))
      bm2 == set_bitmap_one(bm1, setup_game(g, m).current_head)
  IN [k \in 1 .. SCREEN_WIDTH |-> clear(k)]
       \o <<bm1, bm2, setup_game(g, m).game_bitmap>>

\* The values game_bitmap takes in a direction event (lines 241, 244),
\* g the game record before it, d the direction received and m the byte
\* read outside the array
event_stores(g, d, m) ==
  <<set_bitmap_zero(g.game_bitmap, g.current_head),
    direction_event(g, d, m).game_bitmap>>

\* The values game_bitmap takes in a tick, g the game record at line 262
\* and final the last value: line 270, then line 273 or 285
tick_stores(g, final) == <<tick_advance(g).game_bitmap, final>>

\* GameLogicTask is between two iterations
BetweenIterations == stores = <<>> /\ position = "loop"

\* game_bitmap takes the value bm, between two iterations or not; before
\* the first row of a pass is sent only the latest value counts
Hold(bm, between) ==
  held' = (IF frame = <<>> THEN {} ELSE held)
            \cup {[bitmap |-> bm, boundary |-> between]}

\* The top of an iteration of GameLogicTask.  In PLAYING: xQueueReceive
\* (line 232) and, with a direction received, the event of lines 233-245,
\* its stores of game_bitmap still to be made; the iteration goes on at
\* line 247.  In the other states: the whole branch, Setup's stores of
\* game_bitmap still to be made.
GameLogicBegin ==
  /\ pc = "task"
  /\ BetweenIterations
  /\ IF state = PLAYING
     THEN /\ IF direction_queue # <<>>
             THEN /\ \E m \in found :
                       /\ StoreLocals(direction_event(
                                        Game, Head(direction_queue), m))
                       /\ stores' = Changes(game_bitmap,
                                      event_stores(
                                        Game, Head(direction_queue), m))
                  /\ direction_queue' = Tail(direction_queue)
                  /\ any_input' = TRUE
             ELSE /\ StoreLocals(Game)
                  /\ UNCHANGED <<stores, direction_queue, any_input>>
          /\ position' = "event"
          /\ UNCHANGED <<pc, held>>
     ELSE \E m \in found : \E o \in branch_outcomes(m) :
            /\ StoreLocals(o.game)
            /\ pc' = o.pc
            /\ stores' = Changes(game_bitmap,
                                 IF state = SETUP_GAME
                                 THEN setup_stores(Game, m) ELSE <<>>)
            /\ IF stores' = <<>>
               THEN Hold(game_bitmap, TRUE) ELSE UNCHANGED held
            /\ UNCHANGED <<position, direction_queue, any_input>>
  /\ UNCHANGED <<game_bitmap, notify, moves, taken, frame, sent>>

\* The iteration from line 247 on, the stores of lines 241 and 244 made:
\* the apple check, ulTaskNotifyTake (line 262) and, with a notification
\* taken, the tick, its stores of game_bitmap still to be made.  When the
\* modulus is zero the iteration can come to stand in place_apple after
\* the store of line 270.
GameLogicResume ==
  /\ pc = "task"
  /\ stores = <<>>
  /\ position = "event"
  /\ \E m \in stray(Game, <<>>) :
       \E o \in playing_outcomes(Game, <<>>, notify, m) :
       /\ StoreLocals(o.game)
       /\ stores' = Changes(game_bitmap,
                            IF notify > 0
                            THEN tick_stores(apple_check(Game),
                                             o.game.game_bitmap)
                            ELSE <<>>)
       /\ position' = IF o.pc = "trap" THEN "apple" ELSE "loop"
       /\ IF stores' = <<>> /\ position' = "loop"
          THEN Hold(game_bitmap, TRUE) ELSE UNCHANGED held
  /\ notify' = notify_take(notify)
  /\ moves' = IF notify > 0 THEN moves + 1 ELSE moves
  /\ UNCHANGED <<game_bitmap, direction_queue, any_input, pc, taken, frame,
                 sent>>

\* rand() % 0 in place_apple (line 138), the store of line 270 made: the
\* program stops
GameLogicTrap ==
  /\ pc = "task"
  /\ stores = <<>>
  /\ position = "apple"
  /\ pc' = "trap"
  /\ UNCHANGED <<game_vars, direction_queue, notify, moves, any_input,
                 obs_vars>>

\* The next change of game_bitmap of the running iteration
GameLogicStore ==
  /\ pc = "task"
  /\ stores # <<>>
  /\ game_bitmap' = Head(stores)
  /\ stores' = Tail(stores)
  /\ Hold(Head(stores), Tail(stores) = <<>> /\ position = "loop")
  /\ UNCHANGED <<state, snake_buf, head_idx, tail_idx, current_head,
                 apple, current_score, got_apple, direction, body_direction,
                 new_direction, direction_queue, notify, moves, any_input,
                 pc, taken, frame, position, sent>>

\* DisplayGameTask sending row i + 1 in place of row i
DisplayGameTask_next_row ==
  /\ pc = "task"
  /\ Len(frame) < SCREEN_WIDTH
  /\ frame' = Append(frame, game_bitmap[(Len(frame) + 1) % SCREEN_WIDTH])
  /\ UNCHANGED <<game_vars, direction_queue, notify, moves, any_input, pc,
                 taken, held, stores, position, sent>>

\* lc.setRow(0, i, game_bitmap[i]) (line 317), i the number of rows sent
DisplayGameTask ==
  /\ pc = "task"
  /\ Len(frame) < SCREEN_WIDTH
  /\ frame' = Append(frame, game_bitmap[Len(frame)])
  /\ UNCHANGED <<game_vars, direction_queue, notify, moves, any_input, pc,
                 taken, held, stores, position, sent>>

\* vTaskDelay(pdMS_TO_TICKS(25)) (line 319): the pass is over
DisplayDelay ==
  /\ pc = "task"
  /\ Len(frame) = SCREEN_WIDTH
  /\ frame' = <<>>
  /\ held' = {[bitmap |-> game_bitmap, boundary |-> BetweenIterations]}
  /\ UNCHANGED <<game_vars, direction_queue, notify, moves, any_input, pc,
                 taken, stores, position, sent>>

ShortMoveNoti == moves + notify < MaxShortTicks /\ SnakeMoveNoti

FrameMoveNoti == moves + notify < MaxFrameTicks /\ SnakeMoveNoti

\* the button tasks (lines 335-381), sent counting their sends
FrameButtonPress ==
  /\ sent < MaxFrameSends
  /\ \E d \in Directions : QueueSendStep(d)
  /\ sent' = sent + 1
  /\ UNCHANGED <<taken, frame, held, stores, position>>

\* The Setup iteration of GameLogicTask from every start of InitStart,
\* before the first button press and the first movement tick
SpecStart == InitStart /\ [][GameLogicTask]_vars

\* ------------------------------------------------------------------
\* The end of a game
\* ------------------------------------------------------------------
\* The locals of GameLogicTask at the end of the iteration in which the
\* 61st apple has been eaten and the 62nd placed, in a game played from
\* Setup with head_idx = 0: score 63, committed head (0,0), provisional
\* head (7,0), moving LEFT, apple on (0,0).  moves and any_input count
\* from here.
InitEnd ==
  /\ state = PLAYING
  /\ head_idx = 61
  /\ tail_idx = 0
  /\ snake_buf =
       [i \in 0 .. SNAKE_LEN - 1 |->
          <<129, 128, 112, 113, 97, 81, 65, 49, 33, 32, 16, 17, 33, 32, 48,
            64, 65, 81, 82, 66, 65, 49, 33, 32, 48, 64, 80, 81, 65, 64, 48,
            32, 16, 0, 1, 17, 16, 0, 112, 96, 80, 64, 48, 32, 16, 0, 1, 17,
            16, 32, 48, 64, 65, 49, 48, 32, 16, 0, 1, 17, 16, 0, 112,
            113>>[i + 1]]
  /\ got_apple = FALSE
  /\ current_head = 112
  /\ apple = 0
  /\ current_score = 63
  /\ direction = LEFT
  /\ body_direction = LEFT
  /\ new_direction = LEFT
  /\ game_bitmap =
       [i \in 0 .. SCREEN_WIDTH - 1 |-> <<139, 59, 0, 0, 0, 0, 0, 0>>[i + 1]]
  /\ direction_queue = <<>>
  /\ notify = 0
  /\ moves = 0
  /\ any_input = FALSE
  /\ pc = "task"
  /\ ObsInit

SpecEnd == InitEnd /\ [][Next]_vars

\* The same game three iterations later (UP, RIGHT and DOWN received, a
\* tick in each): committed head (1,0), moving DOWN, the apple on (0,0)
\* one LEFT away
InitLast ==
  /\ state = PLAYING
  /\ head_idx = 0
  /\ tail_idx = 3
  /\ snake_buf =
       [i \in 0 .. SNAKE_LEN - 1 |->
          <<16, 128, 112, 113, 97, 81, 65, 49, 33, 32, 16, 17, 33, 32, 48,
            64, 65, 81, 82, 66, 65, 49, 33, 32, 48, 64, 80, 81, 65, 64, 48,
            32, 16, 0, 1, 17, 16, 0, 112, 96, 80, 64, 48, 32, 16, 0, 1, 17,
            16, 32, 48, 64, 65, 49, 48, 32, 16, 0, 1, 17, 16, 0, 1,
            17>>[i + 1]]
  /\ got_apple = FALSE
  /\ current_head = 23
  /\ apple = 0
  /\ current_score = 63
  /\ direction = DOWN
  /\ body_direction = DOWN
  /\ new_direction = DOWN
  /\ game_bitmap =
       [i \in 0 .. SCREEN_WIDTH - 1 |-> <<11, 59, 0, 0, 0, 0, 0, 2>>[i + 1]]
  /\ direction_queue = <<>>
  /\ notify = 0
  /\ moves = 0
  /\ any_input = FALSE
  /\ pc = "task"
  /\ ObsInit

NextDisplay ==
  \/ GameLogicBegin
  \/ GameLogicResume
  \/ GameLogicTrap
  \/ GameLogicStore
  \/ DisplayGameTask
  \/ DisplayDelay
  \/ FrameButtonPress
  \/ FrameMoveNoti

\* GameLogicTask store by store beside DisplayGameTask, from the start of
\* InitZero and from the game of InitLast
SpecDisplay == (InitZero \/ InitLast) /\ [][NextDisplay]_vars

NextLast ==
  \/ GameLogicTask
  \/ SnakeButtonPressUp
  \/ SnakeButtonPressLeft
  \/ SnakeButtonPressRight
  \/ SnakeButtonPressDown
  \/ ShortMoveNoti

\* The states in which an iteration of GameLogicTask changes something,
\* that is ENABLED <<GameLogicTask>>_vars: Setup and GAME_OVER_TRANS
\* always leave their state, PLAYING changes the queue, the notification
\* count or the score it finds to change
GameLogicDue ==
  /\ pc = "task"
  /\ \/ state = SETUP_GAME
     \/ state = GAME_OVER_TRANS
     \/ /\ state = PLAYING
        /\ \/ direction_queue # <<>>
           \/ notify > 0
           \/ current_head = apple

\* The tasks all have priority 1 (lines 405-411) and the scheduler shares
\* the processor among tasks of equal priority: a task that can take a
\* step is not left waiting for ever.  The presses of the buttons are
\* the player's, nothing makes them happen.  The second conjunct is
\* WF_vars(GameLogicTask) written out.
SpecLast ==
  /\ InitLast /\ [][NextLast]_vars
  /\ WF_vars(ShortMoveNoti)
  /\ ([]<>~GameLogicDue \/ []<><<GameLogicTask>>_vars)

\* The runs of StartRuns to the depth of MaxShortTicks movement ticks
SpecShort == InitRuns /\ [][NextLast]_vars

\* ------------------------------------------------------------------
\* Single calls of the pure helpers on sampled game data
\* ------------------------------------------------------------------
RowSamples == {0, 1, 2, 129, 255}
ScoreSamples == {2, 40, 62}

\* Game data before a single call: either any committed head cell of the
\* grid and any direction on an empty board, or a board whose rows 0 and 1
\* are sampled with a sampled score, the other rows empty or, under two
\* full rows, full
InitFn ==
  /\ pc = "call"
  /\ state = PLAYING
  /\ head_idx = 0
  /\ tail_idx = 0
  /\ \E x, y \in 0 .. SCREEN_WIDTH - 1, d \in Directions,
        a, b \in RowSamples, c \in {0, 255}, sc \in ScoreSamples :
       /\ \/ a = 0 /\ b = 0 /\ sc = 2
          \/ x = 4 /\ y = 1 /\ d = UP
       /\ c = 255 => (a = 255 /\ b = 255)
       /\ snake_buf = [i \in 0 .. SNAKE_LEN - 1 |-> TO_COORDINATES(x, y)]
       /\ direction = d
       /\ current_score = sc
       /\ game_bitmap = [i \in 0 .. SCREEN_WIDTH - 1 |->
                          IF i = 0 THEN a ELSE IF i = 1 THEN b ELSE c]
  /\ body_direction = direction
  /\ new_direction = direction
  /\ current_head = snake_buf[head_idx]
  /\ apple = NO_APPLE
  /\ got_apple = TRUE
  /\ direction_queue = <<>>
  /\ notify = 0
  /\ moves = 0
  /\ any_input = FALSE
  /\ ObsInit

\* current_head = place_new_head(snake_buf[head_idx], direction) (line 269)
CallPlaceNewHead ==
  /\ pc = "call"
  /\ current_head' = place_new_head(snake_buf[head_idx], direction)
  /\ pc' = "head_done"
  /\ UNCHANGED <<state, snake_buf, head_idx, tail_idx, apple,
                 current_score, got_apple, direction, body_direction,
                 new_direction, game_bitmap, direction_queue, notify, moves,
                 any_input, obs_vars>>

\* place_apple(&apple, current_score) (line 283)
CallPlaceApple ==
  /\ pc = "call"
  /\ \E r \in rand_draws(current_score) :
       apple' = place_apple(game_bitmap, apple, r)
  /\ pc' = "apple_done"
  /\ UNCHANGED <<state, snake_buf, head_idx, tail_idx, current_head,
                 current_score, got_apple, direction, body_direction,
                 new_direction, game_bitmap, direction_queue, notify, moves,
                 any_input, obs_vars>>

NextFn == CallPlaceNewHead \/ CallPlaceApple

SpecFn == InitFn /\ [][NextFn]_vars

\* ------------------------------------------------------------------
\* Vocabulary of the properties
\* ------------------------------------------------------------------
\* committed body length, (head_idx - tail_idx + 64) mod 64 + 1
body_length == ((head_idx - tail_idx + SNAKE_LEN) % SNAKE_LEN) + 1

\* indices and cells of snake_buf's live range tail_idx .. head_idx
LiveIdx == {(tail_idx + k) % SNAKE_LEN : k \in 0 .. body_length - 1}
LiveCells == {snake_buf[i] : i \in LiveIdx}

GridCells ==
  {TO_COORDINATES(x, y) : x \in 0 .. SCREEN_WIDTH - 1,
                          y \in 0 .. SCREEN_HEIGHT - 1}

InGrid(c) == UPPER_BITS(c) < SCREEN_WIDTH /\ LOWER_BITS(c) < SCREEN_HEIGHT

\* the bit of cell c in bitmap bm (0 when the row has no such bit)
CellBit(bm, c) ==
  IF LOWER_BITS(c) \in DOMAIN bm THEN Bit(bm[LOWER_BITS(c)], UPPER_BITS(c))
  ELSE 0

Opposite(a, b) == {a, b} = {UP, DOWN} \/ {a, b} = {LEFT, RIGHT}

\* unit step of a direction
StepX(d) == IF d = RIGHT THEN 1 ELSE IF d = LEFT THEN -1 ELSE 0
StepY(d) == IF d = UP THEN 1 ELSE IF d = DOWN THEN -1 ELSE 0

\* a step in which GameLogicTask commits the provisional head
TickStep == pc = "task" /\ state = PLAYING /\ moves' = moves + 1

\* a step in which GameLogicTask receives a direction while Playing
ReceiveStep ==
  pc = "task" /\ state = PLAYING /\ direction_queue # <<>>
  /\ direction_queue' = <<>>

\* ------------------------------------------------------------------
\* Properties
\* ------------------------------------------------------------------
\* C1: from Setup onward, at the end of every iteration, the bit of every
\* grid cell is set iff the cell is in the live range of snake_buf, is the
\* provisional head, or is the apple cell while the apple is present.
C1_GridConsistent ==
  (pc = "task" /\ state # SETUP_GAME) =>
    \A c \in GridCells :
      CellBit(game_bitmap, c) = 1 <=>
        \/ c \in LiveCells
        \/ c = current_head
        \/ apple # NO_APPLE /\ c = apple

\* C2: every coordinate the game holds (live snake_buf entries, the
\* provisional head, the apple when present) has x < 8 and y < 8.
C2_CoordinatesInGrid ==
  (pc = "task" /\ state # SETUP_GAME) =>
    /\ \A c \in LiveCells : InGrid(c)
    /\ InGrid(current_head)
    /\ apple # NO_APPLE => InGrid(apple)

\* C3: place_new_head wraps modulo 8 on both axes: from (x, y) in
\* direction d it returns ((x + dx) mod 8, (y + dy) mod 8).
C3_HeadWraps ==
  pc = "head_done" =>
    LET old == snake_buf[head_idx]
    IN current_head =
         TO_COORDINATES((UPPER_BITS(old) + StepX(direction)) % SCREEN_WIDTH,
                        (LOWER_BITS(old) + StepY(direction)) % SCREEN_HEIGHT)

\* C4: a direction received while Playing is rejected (direction keeps its
\* value) iff it is the opposite of body_direction, and otherwise becomes
\* the direction; after every step direction is not the opposite of
\* body_direction in state Playing.
C4_ReversalRule ==
  [][ /\ ReceiveStep =>
          direction' = IF Opposite(Head(direction_queue), body_direction)
                       THEN direction ELSE Head(direction_queue)
      /\ (pc = "task" /\ state' = PLAYING) =>
          ~Opposite(direction', body_direction') ]_vars

\* C4 witness: after UP then LEFT (accepted) then DOWN (rejected) between
\* two ticks
C4_Witness ==
  /\ state = PLAYING /\ any_input
  /\ body_direction = UP /\ direction = LEFT /\ new_direction = DOWN

\* C5: the snake is never committed onto one of its own body cells (other
\* than the tail cell about to vacate) while the state remains Playing: a
\* tick that commits such a cell leaves the state GAME_OVER_TRANS.
C5_SelfCollisionEndsGame ==
  [][ (TickStep
       /\ snake_buf'[head_idx'] \in
            {snake_buf[i] : i \in LiveIdx \ {tail_idx}} \ {apple})
      => state' = GAME_OVER_TRANS ]_vars

\* C6: the coordinate place_apple writes is a cell of the grid whose bit
\* in game_bitmap was zero before the placement.
C6_AppleOnFreeCell ==
  pc = "apple_done" => InGrid(apple) /\ CellBit(game_bitmap, apple) = 0

\* C7: in state Playing, a present apple has its bit set in game_bitmap
\* and is not one of the committed body cells.
C7_AppleInvariant ==
  (pc = "task" /\ state = PLAYING /\ apple # NO_APPLE) =>
    CellBit(game_bitmap, apple) = 1 /\ apple \notin LiveCells

\* C8: the tick that follows an apple consumption grows the committed
\* body by exactly one, leaves the tail where it is, clears got_apple and
\* places a new apple on a grid cell whose bit was zero just before.
C8_AppleGrowsSnake ==
  [][ \A m \in found :
        (TickStep /\ before_tick(Game, direction_queue, m).got_apple) =>
          /\ body_length' = body_length + 1
          /\ tail_idx' = tail_idx
          /\ CellBit(game_bitmap', snake_buf[tail_idx]) = 1
          /\ ~got_apple'
          /\ apple' # NO_APPLE /\ InGrid(apple')
          /\ CellBit(tick_advance(before_tick(Game, direction_queue, m))
                       .game_bitmap, apple') = 0 ]_vars

\* C9: the committed body length never exceeds 64 and never decreases
\* from one iteration to the next after Setup.
C9_LengthMonotone ==
  [][ (pc = "task" /\ state = PLAYING) =>
        body_length' <= SNAKE_LEN /\ body_length' >= body_length ]_vars

\* C10: Setup yields Playing with the single body cell (4,1), provisional
\* head (4,2), direction = body_direction = UP and score 2; the fifth tick
\* without any direction input leaves the committed head at (4,6), the
\* provisional head at (4,7) and the score at 2.
C10_SetupThenFiveTicks ==
  [][ /\ (pc = "task" /\ state = SETUP_GAME /\ state' # SETUP_GAME) =>
          /\ state' = PLAYING
          /\ body_length' = 1
          /\ head_idx' < SNAKE_LEN
          /\ snake_buf'[head_idx'] = TO_COORDINATES(4, 1)
          /\ current_head' = TO_COORDINATES(4, 2)
          /\ direction' = UP /\ body_direction' = UP
          /\ current_score' = 2
      /\ (TickStep /\ moves' = 5 /\ ~any_input') =>
          /\ snake_buf'[head_idx'] = TO_COORDINATES(4, 6)
          /\ current_head' = TO_COORDINATES(4, 7)
          /\ current_score' = 2 ]_vars

\* C11: whenever place_apple is invoked the score is below 64 and at
\* least one cell of the grid is unoccupied; in particular it is not
\* invoked in the iteration in which the score reaches 64, even when a
\* tick is pending in that iteration.
C11_PlaceApplePrecondition ==
  [][ \A m \in found :
        (TickStep /\ place_apple_invoked(Game, direction_queue, notify, m)) =>
          /\ before_tick(Game, direction_queue, m).current_score
               < SCREEN_HEIGHT * SCREEN_WIDTH
          /\ \E c \in GridCells :
               CellBit(tick_advance(before_tick(Game, direction_queue, m))
                         .game_bitmap, c) = 0 ]_vars

\* C12: when place_apple is invoked with every one of the 64 bits of
\* game_bitmap set, it modifies neither *apple_coordinates nor
\* game_bitmap: no cell is written as the new apple.
C12_FullBoardLeavesAppleAlone ==
  (pc = "apple_done" /\ \A c \in GridCells : CellBit(game_bitmap, c) = 1)
    => apple = NO_APPLE

\* C16: the SETUP_GAME branch, whatever values the game variables held
\* before it, yields the live range made of the one cell (4,1), head
\* (4,2), apple (4,7), score 2, direction and body_direction UP, no apple
\* flag pending, exactly those three bits set in game_bitmap, and state
\* PLAYING.
C16_SetupResets ==
  [][ (pc = "task" /\ state = SETUP_GAME /\ game_vars' # game_vars) =>
        /\ state' = PLAYING
        /\ body_length' = 1
        /\ head_idx' < SNAKE_LEN
        /\ snake_buf'[head_idx'] = TO_COORDINATES(4, 1)
        /\ current_head' = TO_COORDINATES(4, 2)
        /\ apple' = TO_COORDINATES(4, 7)
        /\ current_score' = 2
        /\ direction' = UP /\ body_direction' = UP
        /\ ~got_apple'
        /\ \A c \in GridCells :
             CellBit(game_bitmap', c) = 1 <=>
               c \in {TO_COORDINATES(4, 1), TO_COORDINATES(4, 2),
                      TO_COORDINATES(4, 7)} ]_vars

\* C13: direction_queue never holds more than one value; a send completes
\* only into free room and keeps what the queue holds (a producer at a
\* full queue waits, nothing is overwritten or dropped); a value leaves
\* the queue only by being received into new_direction, and new_direction
\* only ever takes the value at the head of the queue, which the receive
\* removes (nothing received twice); and every value a send has put into
\* the queue is received by GameLogicTask (nothing lost).
C13_QueueExactlyOnce ==
  /\ [][ /\ Len(direction_queue') <= DIRECTION_QUEUE_SIZE
         /\ direction_queue' # direction_queue =>
               \/ /\ Len(direction_queue) < DIRECTION_QUEUE_SIZE
                  /\ \E d \in Directions :
                       direction_queue' = Append(direction_queue, d)
                  /\ UNCHANGED game_vars
               \/ /\ ReceiveStep
                  /\ direction_queue' = Tail(direction_queue)
                  /\ new_direction' = Head(direction_queue)
         /\ new_direction' # new_direction =>
               /\ ReceiveStep
               /\ new_direction' = Head(direction_queue)
               /\ direction_queue' = Tail(direction_queue) ]_vars
  /\ \A d \in Directions :
       (direction_queue = <<d>>)
         ~> (direction_queue = <<>> /\ new_direction = d)

\* C14: however many notifications are pending, one iteration commits
\* the provisional head at most once (head_idx advances by one, and only
\* in an iteration of the PLAYING branch that finds a notification); the
\* poll leaves the pending count at zero, so that no later iteration
\* advances unless SnakeMoveNoti has given a new notification.
C14_OneAdvancePerIteration ==
  [][ /\ head_idx' # head_idx =>
            /\ pc = "task" /\ state = PLAYING /\ notify > 0
            /\ head_idx' = SNAKE_NEXT(head_idx)
            /\ moves' = moves + 1
      /\ moves' # moves => (moves' = moves + 1 /\ notify > 0)
      /\ notify' < notify => notify' = 0
      /\ (pc = "task" /\ state = PLAYING /\ taken' # taken) =>
            notify' = 0 ]_vars

\* a poll has found two notifications and the snake has advanced once
C14_Witness ==
  /\ state = PLAYING
  /\ taken > 1 /\ notify = 0
  /\ moves = 1 /\ head_idx = 1

\* a bitmap whose eight rows are the rows of the sent frame f
FrameOf(f, bm) == \A i \in 1 .. Len(f) : f[i] = bm[i - 1]

\* C15: the eight rows one pass of DisplayGameTask sends equal game_bitmap
\* as it stood at one single instant of the pass at which GameLogicTask
\* was between two iterations: a frame never mixes rows from before and
\* after a change GameLogicTask makes.
C15_FrameIsSnapshot ==
  Len(frame) = SCREEN_WIDTH =>
    \E h \in held : h.boundary /\ FrameOf(frame, h.bitmap)

\* C15, amended: every row a pass has sent is a value that row of
\* game_bitmap held at some instant of the pass, within an iteration of
\* GameLogicTask or between two (so a pass during which game_bitmap keeps
\* one value sends that value), rows of one frame may come from different
\* instants, and no step that sends a row writes game_bitmap.
C15_RowsWereHeld ==
  [][ /\ \A i \in 1 .. Len(frame') :
            \E h \in held' : h.bitmap[i - 1] = frame'[i]
      /\ (Len(frame') = SCREEN_WIDTH
             /\ Cardinality({h.bitmap : h \in held'}) = 1) =>
            FrameOf(frame', game_bitmap')
      /\ frame' # frame => game_bitmap' = game_bitmap ]_vars

\* a complete frame that is game_bitmap at no instant of its pass
C15_Witness ==
  /\ Len(frame) = SCREEN_WIDTH
  /\ Cardinality(held) > 1
  /\ \A h \in held : ~FrameOf(frame, h.bitmap)

\* C17: an iteration in which eating the apple raises the score to 64
\* sets state to GAME_OVER_TRANS; the iteration of GameLogicTask that
\* finds GAME_OVER_TRANS sets GAME_OVER_MENU whatever else holds; from
\* the moment PLAYING is left neither the score nor any other game datum
\* changes, and the state only goes on to GAME_OVER_MENU.
C17_BoardFullEndsGame ==
  [][ /\ (state = PLAYING
             /\ current_score < SCREEN_HEIGHT * SCREEN_WIDTH
             /\ current_score' >= SCREEN_HEIGHT * SCREEN_WIDTH) =>
            state' = GAME_OVER_TRANS
      /\ (state = GAME_OVER_TRANS /\ game_vars' # game_vars) =>
            Game' = [Game EXCEPT !.state = GAME_OVER_MENU]
      /\ state = GAME_OVER_MENU => game_vars' = game_vars
      /\ (state = PLAYING /\ state' # PLAYING) =>
            state' = GAME_OVER_TRANS
              /\ current_score' = SCREEN_HEIGHT * SCREEN_WIDTH ]_vars

\* the game has ended on a full score and gone on to the menu
C17_Witness ==
  /\ pc = "task"
  /\ state = GAME_OVER_MENU
  /\ current_score = SCREEN_HEIGHT * SCREEN_WIDTH

\* C18: a direction event whose value is the opposite of body_direction
\* leaves direction, body_direction, current_head, snake_buf, head_idx,
\* tail_idx, apple, score and every bit of game_bitmap as they were.
C18_RejectedReversalChangesNothing ==
  [][ \A m \in found :
      (ReceiveStep /\ Opposite(Head(direction_queue), body_direction)) =>
        LET g == after_event(Game, direction_queue, m)
        IN /\ g.direction = direction
           /\ g.body_direction = body_direction
           /\ g.current_head = current_head
           /\ g.snake_buf = snake_buf
           /\ g.head_idx = head_idx /\ g.tail_idx = tail_idx
           /\ g.apple = apple
           /\ g.current_score = current_score
           /\ g.game_bitmap = game_bitmap ]_vars

\* C19: at the end of every iteration that leaves the game in PLAYING,
\* current_score = committed body length + 1 for the provisional head
\* + 1 if got_apple is set; the score changes only by +1, in an iteration
\* in which the head is on the apple.
C19_ScoreIsLength ==
  [][ /\ (pc' = "task" /\ state' = PLAYING) =>
            current_score' = body_length' + 1 + B(got_apple')
      /\ (state = PLAYING /\ current_score' # current_score) =>
            /\ current_score' = current_score + 1
            /\ \E m \in found :
                 after_event(Game, direction_queue, m).current_head = apple
     ]_vars

\* C20: under fair scheduling of the tasks, every direction a button task
\* has put into direction_queue is eventually received by GameLogicTask,
\* so that the queue has room again for a producer waiting in xQueueSend.
C20_NoProducerStarved ==
  [](direction_queue # <<>> => <>(direction_queue = <<>>))

\* the cell committed immediately before the committed head
neck == snake_buf[(head_idx + SNAKE_LEN - 1) % SNAKE_LEN]

\* C21: in every Playing state in which the committed body has at least
\* two cells, the provisional head differs from the cell committed
\* immediately before the committed head: the snake never steps back
\* into its neck.
C21_NeverIntoNeck ==
  (pc = "task" /\ state = PLAYING /\ body_length >= 2) =>
    current_head # neck

====
